---- MODULE Spec2Model ----
(***************************************************************************)
(* Model of the forest-explorer ingestion pipeline                         *)
(* (backend/app/ingestion): ingest_state over the FIA tables, its fetch,   *)
(* clean, delete, append and geometry-backfill steps, and the region       *)
(* validation of the PRISM and TIGER loaders.  Every store transaction is  *)
(* one step, so every state is a state observable between transactions.   *)
(***************************************************************************)
EXTENDS Integers, Sequences, FiniteSets, TLC

VARIABLES
    source,     \* remote snapshot: state_abbr -> table -> sequence of chunks
    tiger,      \* remote national county shapefile: set of features
    prism,      \* per plot cn, the PRISM rasters with a usable cell there
    fia_plot,   \* raw.fia_plot  rows
    fia_cond,   \* raw.fia_cond  rows
    fia_tree,   \* raw.fia_tree  rows
    prism_normals,     \* raw.prism_normals rows
    county_boundaries, \* raw.county_boundaries rows
    pipeline,   \* the loader that is running: "fia", "prism", "tiger"
    pc,         \* position of the running pipeline
    state_abbr, \* upper-cased region identifier of the run
    statecd,    \* region code of the run
    tables,     \* table list of the run (after defaulting)
    ti,         \* index of the table being loaded
    di,         \* index into DELETE_ORDER
    ci,         \* index of the chunk being read
    total_rows, \* _ingest_table_chunked's running total
    results,    \* results["tables"]: set of <<table, rows>>
    error,      \* exception raised to the caller, "none" if none
    scratch,    \* scratch files of this run that exist on disk
    log,        \* I/O events of this run, in order
    faulted,    \* an environment fault was injected in this run
    repeat,     \* this run repeats the previous successful run's request
    prevCounts, \* region row counts when the repeated run started
    startDangling, \* a dangling child row existed when the run started
    frame,      \* the DataFrame the PRISM or TIGER loader holds
    aborted     \* a run of the sequence so far has raised (noted on demand)

\* what no step of ingest_state touches once the run has started
env == <<source, tiger, prism, prism_normals, county_boundaries, pipeline,
         frame, aborted>>

vars == <<source, tiger, prism, fia_plot, fia_cond, fia_tree, prism_normals,
          county_boundaries, pipeline, pc, state_abbr, statecd,
          tables, ti, di, ci, total_rows, results, error, scratch, log,
          faulted, repeat, prevCounts, startDangling, frame, aborted>>

----------------------------------------------------------------------------
(* Region catalog (a two-entry excerpt of STATE_CODES) *)

STATE_CODES == [a \in {"NC", "SC"} |-> IF a = "NC" THEN 37 ELSE 45]

\* str.upper() on the identifiers the callers pass
upper(s) ==
    CASE s = "nc" -> "NC"
      [] s = "Nc" -> "NC"
      [] s = "sc" -> "SC"
      [] s = "xx" -> "XX"
      [] OTHER    -> s

Idents == {"nc", "xx"}

----------------------------------------------------------------------------
(* Rows and source snapshots *)

NaN == "NaN"

PlotRow(cn, st, lat, lon) == [cn |-> cn, statecd |-> st, lat |-> lat, lon |-> lon]
ChildRow(cn, plt, st)     == [cn |-> cn, plt_cn |-> plt, statecd |-> st]

\* A snapshot is referentially consistent, as the published files are:
\* plot 1 of region 37 with or without a latitude, plot 2 filed under either
\* region code, in one chunk or in two; every child row is keyed to a plot
\* row of the PLOT file and carries that plot's region code.
SnapshotOf(lat, st, split, conds, trees) ==
    LET p1 == PlotRow(1, 37, lat, "-79.0")
        p2 == PlotRow(2, st, "35.5", "-78.5")
        t1 == ChildRow(1, 1, 37)
        t2 == ChildRow(2, 2, st)
    IN  [PLOT |-> IF split THEN <<{p1}, {p2}>> ELSE <<{p1, p2}>>,
         COND |-> IF conds THEN <<{t1}>> ELSE <<>>,
         TREE |-> CASE trees = "none" -> <<>>
                    [] trees = "one"  -> <<{t1}>>
                    [] trees = "two"  -> <<{t1}, {t2}>>]

EmptySnapshot == [PLOT |-> <<>>, COND |-> <<>>, TREE |-> <<>>]

Snapshots ==
    {EmptySnapshot} \cup
    {SnapshotOf(lat, st, split, conds, trees) :
        lat \in {NaN, "35.5"}, st \in {37, 45}, split \in BOOLEAN,
        conds \in BOOLEAN, trees \in {"none", "one", "two"}}

----------------------------------------------------------------------------
(* Configuration of ingest_state *)

\* the deletes in load order: the parent first
DeleteParentsFirst == <<"fia_plot", "fia_cond", "fia_tree">>

DELETE_ORDER == <<"fia_tree", "fia_cond", "fia_plot">>

DEFAULT_TABLES == <<"PLOT", "COND", "TREE">>

TableNames == {"PLOT", "COND", "TREE", "SOIL"}

\* Longest table list a caller passes
MaxTables == 2

TableLists ==
    {<<>>} \cup UNION {[1..n -> TableNames] : n \in 1..MaxTables}

\* table_config: pg table, needs_geometry
table_config ==
    [t \in {"PLOT", "COND", "TREE"} |->
        CASE t = "PLOT" -> [pg_table |-> "fia_plot", needs_geometry |-> TRUE]
          [] t = "COND" -> [pg_table |-> "fia_cond", needs_geometry |-> FALSE]
          [] t = "TREE" -> [pg_table |-> "fia_tree", needs_geometry |-> FALSE]]

Range(s) == {s[i] : i \in DOMAIN s}

pg_tables_to_load(tabs) ==
    {table_config[t].pg_table : t \in Range(tabs) \cap DOMAIN table_config}

----------------------------------------------------------------------------
(* Transforms *)

\* a coordinate filter that keeps a plot when one of the two coordinates is
\* present
keep_partial(df) ==
    {[cn |-> r.cn, statecd |-> r.statecd, lat |-> r.lat, lon |-> r.lon,
      geom |-> "NULL"] : r \in {x \in df : x.lat # NaN \/ x.lon # NaN}}

\* lines 194-201, on the rows
clean_plot_df(df) ==
    {[cn |-> r.cn, statecd |-> r.statecd, lat |-> r.lat, lon |-> r.lon,
      geom |-> "NULL"] : r \in {x \in df : x.lat # NaN /\ x.lon # NaN}}

clean_cond_df(df) == df

clean_tree_df(df) == df

clean_fn(t, df) ==
    CASE t = "PLOT" -> clean_plot_df(df)
      [] t = "COND" -> clean_cond_df(df)
      [] t = "TREE" -> clean_tree_df(df)

\* Columns to keep from each table
PLOT_COLS ==
    <<"CN", "STATECD", "UNITCD", "COUNTYCD", "PLOT", "INVYR", "LAT", "LON",
      "ELEV", "ECOSUBCD">>

COND_COLS ==
    <<"CN", "PLT_CN", "CONDID", "STATECD", "FORTYPCD", "STDAGE", "STDSZCD",
      "SITECLCD", "SLOPE", "ASPECT", "OWNCD", "OWNGRPCD", "CONDPROP_UNADJ">>

TREE_COLS ==
    <<"CN", "PLT_CN", "CONDID", "SUBP", "TREE", "STATECD", "SPCD", "DIA",
      "HT", "ACTUALHT", "CR", "STATUSCD", "DRYBIO_AG", "DRYBIO_BG",
      "CARBON_AG", "CARBON_BG", "TPA_UNADJ", "VOLCFNET">>

COLS(t) ==
    CASE t = "PLOT" -> PLOT_COLS
      [] t = "COND" -> COND_COLS
      [] t = "TREE" -> TREE_COLS

\* the upper-case and the lower-case spelling of the column names in use
Casing ==
    {<<"CN", "cn">>, <<"STATECD", "statecd">>, <<"UNITCD", "unitcd">>,
     <<"COUNTYCD", "countycd">>, <<"PLOT", "plot">>, <<"INVYR", "invyr">>,
     <<"LAT", "lat">>, <<"LON", "lon">>, <<"ELEV", "elev">>,
     <<"ECOSUBCD", "ecosubcd">>, <<"PLT_CN", "plt_cn">>,
     <<"CONDID", "condid">>, <<"FORTYPCD", "fortypcd">>,
     <<"STDAGE", "stdage">>, <<"STDSZCD", "stdszcd">>,
     <<"SITECLCD", "siteclcd">>, <<"SLOPE", "slope">>, <<"ASPECT", "aspect">>,
     <<"OWNCD", "owncd">>, <<"OWNGRPCD", "owngrpcd">>,
     <<"CONDPROP_UNADJ", "condprop_unadj">>, <<"SUBP", "subp">>,
     <<"TREE", "tree">>, <<"SPCD", "spcd">>, <<"DIA", "dia">>, <<"HT", "ht">>,
     <<"ACTUALHT", "actualht">>, <<"CR", "cr">>, <<"STATUSCD", "statuscd">>,
     <<"DRYBIO_AG", "drybio_ag">>, <<"DRYBIO_BG", "drybio_bg">>,
     <<"CARBON_AG", "carbon_ag">>, <<"CARBON_BG", "carbon_bg">>,
     <<"TPA_UNADJ", "tpa_unadj">>, <<"VOLCFNET", "volcfnet">>,
     <<"EXTRA", "extra">>, <<"Lat", "lat">>}

\* df.columns.str.lower(), one name at a time
str_lower(c) ==
    IF \E p \in Casing : p[1] = c
    THEN (CHOOSE p \in Casing : p[1] = c)[2]
    ELSE c

\* str.upper() of a column name
str_upper(c) ==
    IF \E p \in Casing : p[2] = c /\ p[1] # "Lat"
    THEN (CHOOSE p \in Casing : p[2] = c /\ p[1] # "Lat")[1]
    ELSE IF c = "Lat" THEN "LAT" ELSE c

\* a projection that keeps every column of the chunk
all_columns(cols, columns) == columns

\* available = [c for c in COLS if c in df.columns]
available(cols, columns) == {c \in Range(cols) : c \in columns}

\* clean_plot_df, clean_cond_df, clean_tree_df on a chunk with its column
\* names: project, lower-case, and for PLOT dropna(subset=["lat", "lon"]),
\* which raises KeyError when one of the two columns is absent
clean_df(t, df) ==
    LET columns == {str_lower(c) : c \in available(COLS(t), df.columns)}
    IN  IF t = "PLOT" /\ ~ ({"lat", "lon"} \subseteq columns)
        THEN [err |-> "KeyError", columns |-> {}, rows |-> {}]
        ELSE [err |-> "none", columns |-> columns,
              rows |-> clean_fn(t, df.rows)]

----------------------------------------------------------------------------
(* Store *)

Table(name) ==
    CASE name = "fia_plot" -> fia_plot
      [] name = "fia_cond" -> fia_cond
      [] name = "fia_tree" -> fia_tree

\* a delete that leaves the region's rows in place
keep_state_data(rows, cd) == rows

\* DELETE FROM raw.<table> WHERE statecd = :statecd
delete_state_data(rows, cd) == {r \in rows : r.statecd # cd}

\* the backfill with its WHERE clause inverted to geom IS NOT NULL
update_only_filled(rows) ==
    {IF r.lat # NaN /\ r.lon # NaN /\ r.geom # "NULL"
     THEN [r EXCEPT !.geom = "POINT"] ELSE r : r \in rows}

\* UPDATE ... SET geom = point WHERE lat, lon NOT NULL AND geom IS NULL
update_plot_geometry(rows) ==
    {IF r.lat # NaN /\ r.lon # NaN /\ r.geom = "NULL"
     THEN [r EXCEPT !.geom = "POINT"] ELSE r : r \in rows}

\* the primary key on cn rejects the whole INSERT
PkConflict(rows, df) == \E r \in rows, d \in df : r.cn = d.cn

\* a loader that commits nothing of the chunk
append_nothing(rows, df) == rows

\* df.to_sql(if_exists="append") inside one transaction
load_chunk_to_postgres(rows, df) == rows \cup df

\* an append outside a transaction: the rows sent before the error stay
no_rollback(rows, df) == rows \cup {d \in df : \A r \in rows : r.cn # d.cn}

\* the engine.begin() block rolls the transaction back when to_sql raises
rollback(rows, df) == rows

RegionCount(name, cd) == Cardinality({r \in Table(name) : r.statecd = cd})

Counts(cd) == [n \in Range(DELETE_ORDER) |-> RegionCount(n, cd)]

NoCounts == [n \in Range(DELETE_ORDER) |-> 0]

Dangling(cd) ==
    {r \in fia_tree \cup fia_cond :
        r.statecd = cd /\ ~ \E p \in fia_plot : p.cn = r.plt_cn}

----------------------------------------------------------------------------
(* Fetcher *)

HeadStatuses == {200, 404, 500}

\* a download that never calls raise_for_status()
download_unchecked(head, getOk, zipOk) ==
    [err |-> "none",
     files |-> IF head = 404 THEN {"csv_tmp"} ELSE {"tmp"},
     events |-> <<"HEAD", IF getOk THEN "GET" ELSE "GET failed">>]

\* download_fia_csv: the files left on disk, the error raised, the I/O done
download_fia_csv(head, getOk, zipOk) ==
    IF head = 404
    THEN IF ~ getOk
         THEN [err |-> "FetchFailed", files |-> {},
               events |-> <<"HEAD", "mk zip_tmp", "GET failed", "rm zip_tmp">>]
         ELSE IF ~ zipOk
         THEN [err |-> "ArchiveFormatError", files |-> {"csv_tmp"},
               events |-> <<"HEAD", "mk zip_tmp", "GET", "mk csv_tmp", "rm zip_tmp">>]
         ELSE [err |-> "none", files |-> {"csv_tmp"},
               events |-> <<"HEAD", "mk zip_tmp", "GET", "mk csv_tmp", "rm zip_tmp">>]
    ELSE IF ~ getOk
         THEN [err |-> "FetchFailed", files |-> {"tmp"},
               events |-> <<"HEAD", "mk tmp", "GET failed">>]
         ELSE [err |-> "none", files |-> {"tmp"},
               events |-> <<"HEAD", "mk tmp", "GET">>]

----------------------------------------------------------------------------
(* ingest_state *)

\* the features of the national county file: STATEFP is a two-digit string
TigerFiles == SUBSET {[geoid |-> "37001", statefp |-> "37"],
                      [geoid |-> "45001", statefp |-> "45"]}

\* what the PRISM grids hold at a plot's coordinates: nothing, everything,
\* one annual grid only, every grid but one month, the six months only
CoverPatterns ==
    LET all == {"tmean_annual", "ppt_annual", "tmean_jan", "tmean_jul",
                "ppt_04", "ppt_05", "ppt_06", "ppt_07", "ppt_08", "ppt_09"}
    IN  {{}, all, {"tmean_annual"}, all \ {"ppt_06"},
         {"ppt_04", "ppt_05", "ppt_06", "ppt_07", "ppt_08", "ppt_09"}}

\* an empty store and no run
Quiescent ==
    /\ fia_plot = {} /\ fia_cond = {} /\ fia_tree = {}
    /\ prism_normals = {} /\ county_boundaries = {}
    /\ pipeline = "none"
    /\ pc = "idle"
    /\ state_abbr = "" /\ statecd = 0
    /\ tables = <<>> /\ ti = 1 /\ di = 1 /\ ci = 1
    /\ total_rows = 0 /\ results = {}
    /\ error = "none" /\ scratch = {} /\ log = <<>>
    /\ faulted = FALSE /\ repeat = FALSE /\ prevCounts = NoCounts
    /\ startDangling = FALSE
    /\ aborted = FALSE

InitWith(snapshots, tigers, prisms) ==
    /\ source \in [{"NC"} -> snapshots]
    /\ tiger \in tigers
    /\ prism \in prisms
    /\ Quiescent

Init ==
    /\ InitWith(Snapshots, {{}}, {[cn \in {1, 2} |-> {}]})
    /\ frame = {}

Table_ == tables[ti]
PgTable == table_config[Table_].pg_table
Chunks == source[state_abbr][Table_]

\* the exception leaves ingest_state (engine.dispose() in the finally)
Raise(e) == /\ pc' = "done" /\ error' = e

\* lines 309-323: validate the region, default the table list
Start(ident, tabs) ==
    /\ pipeline' = "fia"
    /\ LET abbr == upper(ident)
           req  == IF tabs = <<>> THEN DEFAULT_TABLES ELSE tabs
       IN  /\ state_abbr' = abbr
           /\ IF abbr \notin DOMAIN STATE_CODES
              THEN /\ Raise("UnknownRegion")
                   /\ statecd' = 0 /\ tables' = <<>>
                   /\ repeat' = FALSE /\ prevCounts' = NoCounts
                   /\ startDangling' = FALSE
              ELSE /\ pc' = "delete" /\ error' = "none"
                   /\ statecd' = STATE_CODES[abbr] /\ tables' = req
                   /\ repeat' = (pc = "done" /\ error = "none" /\ ~ faulted
                                 /\ state_abbr = abbr /\ tables = req)
                   /\ prevCounts' = IF repeat' THEN Counts(STATE_CODES[abbr])
                                    ELSE NoCounts
                   /\ startDangling' = (Dangling(STATE_CODES[abbr]) # {})
    /\ ti' = 1 /\ di' = 1 /\ ci' = 1 /\ total_rows' = 0 /\ results' = {}
    /\ scratch' = {} /\ log' = <<>> /\ faulted' = FALSE /\ frame' = {}
    /\ UNCHANGED <<aborted, source, tiger, prism, fia_plot, fia_cond, fia_tree,
                   prism_normals, county_boundaries>>

\* a caller invokes ingest_state
IngestState(ident, tabs) ==
    /\ pc = "idle"
    /\ Start(ident, tabs)

\* the caller of a completed run invokes it again with the same arguments
Rerun ==
    /\ pc = "done" /\ error = "none" /\ pipeline = "fia"
    /\ Start(state_abbr, tables)

\* the result or the exception reaches the caller
Leave(noted) ==
    /\ pc' = "idle" /\ pipeline' = "none"
    /\ state_abbr' = "" /\ statecd' = 0
    /\ tables' = <<>> /\ ti' = 1 /\ di' = 1 /\ ci' = 1
    /\ total_rows' = 0 /\ results' = {}
    /\ error' = "none" /\ scratch' = {} /\ log' = <<>>
    /\ faulted' = FALSE /\ repeat' = FALSE /\ prevCounts' = NoCounts
    /\ startDangling' = FALSE /\ frame' = {}
    /\ aborted' = noted
    /\ UNCHANGED <<source, tiger, prism, fia_plot, fia_cond, fia_tree,
                   prism_normals, county_boundaries>>

Return ==
    /\ pc = "done"
    /\ Leave(aborted)

\* the same, noting whether the run raised
ReturnNoted ==
    /\ pc = "done"
    /\ Leave(aborted \/ error # "none")

SetTable(name, rows) ==
    /\ fia_plot' = IF name = "fia_plot" THEN rows ELSE fia_plot
    /\ fia_cond' = IF name = "fia_cond" THEN rows ELSE fia_cond
    /\ fia_tree' = IF name = "fia_tree" THEN rows ELSE fia_tree

\* lines 326-329: one delete transaction per requested table, dependents first
DeleteStep ==
    /\ pc = "delete"
    /\ LET dep_table == DELETE_ORDER[di] IN
       IF dep_table \in pg_tables_to_load(tables)
       THEN \/ /\ SetTable(dep_table, delete_state_data(Table(dep_table), statecd))
               /\ log' = Append(log, <<"delete", dep_table>>)
               /\ di' = di + 1
               /\ pc' = IF di = Len(DELETE_ORDER) THEN "load" ELSE "delete"
               /\ UNCHANGED <<error, faulted>>
            \/ /\ Raise("LoadFailed") /\ faulted' = TRUE
               /\ UNCHANGED <<fia_plot, fia_cond, fia_tree, log, di>>
       ELSE /\ di' = di + 1
            /\ pc' = IF di = Len(DELETE_ORDER) THEN "load" ELSE "delete"
            /\ UNCHANGED <<fia_plot, fia_cond, fia_tree, log, error, faulted>>
    /\ UNCHANGED <<env, state_abbr, statecd, tables, ti, ci, total_rows,
                   results, scratch, repeat, prevCounts, startDangling>>

\* a load loop that looks every name up in table_config
NextTableStrict ==
    /\ pc = "load"
    /\ IF ti > Len(tables)
       THEN /\ pc' = "done" /\ UNCHANGED error
       ELSE IF Table_ \notin DOMAIN table_config
       THEN Raise("KeyError")
       ELSE /\ pc' = "download" /\ UNCHANGED error
    /\ UNCHANGED <<env, fia_plot, fia_cond, fia_tree, state_abbr, statecd,
                   tables, ti, di, ci, total_rows, results, scratch, log,
                   faulted, repeat, prevCounts, startDangling>>

\* lines 332-335 and 365: next table of the caller's list, or return
NextTable ==
    /\ pc = "load"
    /\ IF ti > Len(tables)
       THEN /\ pc' = "done" /\ UNCHANGED <<ti, log>>
       ELSE IF Table_ \notin DOMAIN table_config
       THEN /\ ti' = ti + 1 /\ log' = Append(log, <<"warning", Table_>>)
            /\ UNCHANGED pc
       ELSE /\ pc' = "download" /\ UNCHANGED <<ti, log>>
    /\ UNCHANGED <<env, fia_plot, fia_cond, fia_tree, state_abbr, statecd,
                   tables, di, ci, total_rows, results, error, scratch,
                   faulted, repeat, prevCounts, startDangling>>

\* line 341: download_fia_csv(state_abbr, table)
DownloadFiaCsv ==
    /\ pc = "download"
    /\ \E head \in HeadStatuses, getOk \in BOOLEAN, zipOk \in BOOLEAN :
         LET d == download_fia_csv(head, getOk, zipOk) IN
         /\ scratch' = scratch \cup d.files
         /\ log' = log \o [i \in DOMAIN d.events |-> <<d.events[i], Table_>>]
         /\ IF d.err = "none"
            THEN /\ pc' = "chunks" /\ ci' = 1 /\ total_rows' = 0
                 /\ UNCHANGED <<error, faulted>>
            ELSE /\ Raise(d.err) /\ faulted' = TRUE
                 /\ UNCHANGED <<ci, total_rows>>
    /\ UNCHANGED <<env, fia_plot, fia_cond, fia_tree, state_abbr, statecd,
                   tables, ti, di, results, repeat, prevCounts, startDangling>>

\* line 354: csv_path.unlink(missing_ok=True)
Unlinked == scratch \ {"csv_tmp", "tmp"}

\* lines 356-361: record the table's summary and go on
FinishTable ==
    /\ results' = {r \in results : r[1] # Table_} \cup {<<Table_, total_rows>>}
    /\ scratch' = Unlinked
    /\ ti' = ti + 1 /\ pc' = "load"

\* lines 290-297: clean one chunk and append it in one transaction
IngestChunk ==
    /\ pc = "chunks" /\ ci <= Len(Chunks)
    /\ LET cleaned == clean_fn(Table_, Chunks[ci]) IN
       \/ /\ cleaned = {}
          /\ ci' = ci + 1
          /\ UNCHANGED <<fia_plot, fia_cond, fia_tree, pc, total_rows, error,
                         scratch, log, faulted>>
       \/ /\ cleaned # {} /\ ~ PkConflict(Table(PgTable), cleaned)
          /\ SetTable(PgTable, load_chunk_to_postgres(Table(PgTable), cleaned))
          /\ total_rows' = total_rows + Cardinality(cleaned)
          /\ log' = Append(log, <<"append", PgTable>>)
          /\ ci' = ci + 1
          /\ UNCHANGED <<pc, error, scratch, faulted>>
       \/ /\ cleaned # {} /\ PkConflict(Table(PgTable), cleaned)
          /\ SetTable(PgTable, rollback(Table(PgTable), cleaned))
          /\ Raise("LoadFailed") /\ scratch' = Unlinked
          /\ log' = Append(log, <<"append failed", PgTable>>)
          /\ UNCHANGED <<ci, total_rows, faulted>>
       \/ /\ cleaned # {}
          /\ SetTable(PgTable, rollback(Table(PgTable), cleaned))
          /\ Raise("LoadFailed") /\ scratch' = Unlinked /\ faulted' = TRUE
          /\ log' = Append(log, <<"append failed", PgTable>>)
          /\ UNCHANGED <<ci, total_rows>>
       \/ /\ Raise("TransformFailed") /\ scratch' = Unlinked /\ faulted' = TRUE
          /\ UNCHANGED <<fia_plot, fia_cond, fia_tree, ci, total_rows, log>>
    /\ UNCHANGED <<env, state_abbr, statecd, tables, ti, di, results,
                   repeat, prevCounts, startDangling>>

\* lines 299, 351-361: the reader is exhausted
EndOfChunks ==
    /\ pc = "chunks" /\ ci > Len(Chunks)
    /\ IF table_config[Table_].needs_geometry
       THEN /\ pc' = "geom" /\ UNCHANGED <<results, scratch, ti>>
       ELSE FinishTable
    /\ UNCHANGED <<env, fia_plot, fia_cond, fia_tree, state_abbr, statecd,
                   tables, di, ci, total_rows, error, log, faulted, repeat,
                   prevCounts, startDangling>>

\* lines 351-352: geometry backfill, one transaction
UpdatePlotGeometry ==
    /\ pc = "geom"
    /\ \/ /\ fia_plot' = update_plot_geometry(fia_plot)
          /\ log' = Append(log, <<"geom", PgTable>>)
          /\ FinishTable
          /\ UNCHANGED <<error, faulted>>
       \/ /\ Raise("LoadFailed") /\ scratch' = Unlinked /\ faulted' = TRUE
          /\ UNCHANGED <<fia_plot, log, results, ti>>
    /\ UNCHANGED <<env, fia_cond, fia_tree, state_abbr, statecd, tables,
                   di, ci, total_rows, repeat, prevCounts, startDangling>>

----------------------------------------------------------------------------
(* load_prism_normals and load_county_boundaries *)

\* what the two loaders leave alone: the FIA run's own bookkeeping
idle_fia == <<tables, ti, di, ci, total_rows, repeat, prevCounts,
              startDangling>>

\* upper-case and validate the region, having done the I/O `io` before
Enter(pl, ident, next, io) ==
    /\ pipeline' = pl /\ state_abbr' = upper(ident)
    /\ log' = io /\ scratch' = {} /\ results' = {} /\ frame' = {}
    /\ faulted' = FALSE
    /\ IF upper(ident) \notin DOMAIN STATE_CODES
       THEN Raise("UnknownRegion") /\ statecd' = 0
       ELSE pc' = next /\ error' = "none" /\ statecd' = STATE_CODES[upper(ident)]
    /\ UNCHANGED <<aborted, source, tiger, prism, fia_plot, fia_cond, fia_tree,
                   prism_normals, county_boundaries, idle_fia>>

\* the loaders' steps change neither the remote side nor the FIA tables
LoaderFrame ==
    UNCHANGED <<aborted, source, tiger, prism, fia_plot, fia_cond, fia_tree, pipeline,
                state_abbr, statecd, idle_fia>>

\* prism_loader.py lines 97-102
LoadPrismNormals(ident) ==
    /\ pc = "idle"
    /\ Enter("prism", ident, "prism_select", <<>>)

\* a select that goes on to the rasters whatever it has read
SelectWithoutEarlyReturn ==
    /\ pc = "prism_select"
    /\ frame' = {p.cn : p \in {q \in fia_plot : q.statecd = statecd
                                    /\ q.lat # NaN /\ q.lon # NaN}}
    /\ log' = Append(log, <<"select", "fia_plot">>)
    /\ pc' = "prism_rasters"
    /\ UNCHANGED <<prism_normals, county_boundaries, error, scratch, faulted,
                   results>>
    /\ LoaderFrame

\* lines 106-122: read the region's plots that have coordinates
PrismSelectPlots ==
    /\ pc = "prism_select"
    /\ LET plots == {p.cn : p \in {q \in fia_plot : q.statecd = statecd
                                       /\ q.lat # NaN /\ q.lon # NaN}}
       IN  /\ frame' = plots
           /\ log' = Append(log, <<"select", "fia_plot">>)
           /\ IF plots = {}
              THEN pc' = "done" /\ results' = {<<"plots_sampled", 0>>}
              ELSE pc' = "prism_rasters" /\ UNCHANGED results
    /\ UNCHANGED <<prism_normals, county_boundaries, error, scratch, faulted>>
    /\ LoaderFrame

\* PRISM_VARS and the six growing-season months, in download order
PRISM_RASTERS ==
    <<"tmean_annual", "ppt_annual", "tmean_jan", "tmean_jul",
      "ppt_04", "ppt_05", "ppt_06", "ppt_07", "ppt_08", "ppt_09">>

\* the six monthly rasters that growing_ppt sums (months 4..9)
GROWING_MONTHS == {PRISM_RASTERS[i] : i \in 5..10}

\* the sampled value of raster `label` at plot cn: prism[cn] is the set of
\* rasters that have a usable cell at the plot's coordinates
sample(cn, label) == IF label \in prism[cn] THEN "value" ELSE NaN

\* lines 151-160: arithmetic on a missing sample stays missing
convert(v) == IF v = NaN THEN NaN ELSE "converted"

\* line 136-141: zeros plus the six monthly samples; one missing month makes
\* the sum missing
growing_ppt(cn) ==
    IF \E m \in GROWING_MONTHS : sample(cn, m) = NaN THEN NaN ELSE "value"

\* lines 151-160: one result row per selected plot
ResultRow(cn) ==
    [plot_cn |-> cn,
     annual_tmean_f |-> convert(sample(cn, "tmean_annual")),
     annual_ppt_in |-> convert(sample(cn, "ppt_annual")),
     jan_tmean_f |-> convert(sample(cn, "tmean_jan")),
     jul_tmean_f |-> convert(sample(cn, "tmean_jul")),
     growing_season_ppt_in |-> convert(growing_ppt(cn))]

\* line 163
climate_cols == {"annual_tmean_f", "annual_ppt_in", "jan_tmean_f",
                 "jul_tmean_f", "growing_season_ppt_in"}

\* a dropna that drops a row as soon as one climate value is missing
dropna_any(rows) == {r \in rows : \A c \in climate_cols : r[c] # NaN}

\* line 164: dropna(subset=climate_cols, how="all")
dropna_all(rows) == {r \in rows : ~ \A c \in climate_cols : r[c] = NaN}

\* lines 124-164: download and sample every raster, remove the rasters that
\* were returned, drop the plots that have no climate value at all
PrismRasters ==
    /\ pc = "prism_rasters"
    /\ \/ /\ frame' = dropna_all({ResultRow(cn) : cn \in frame})
          /\ log' = log \o [i \in DOMAIN PRISM_RASTERS |-> <<"GET", PRISM_RASTERS[i]>>]
          /\ pc' = "prism_delete"
          /\ UNCHANGED <<scratch, error, faulted>>
       \/ \E k \in DOMAIN PRISM_RASTERS :
            /\ log' = log \o [i \in 1..k |->
                         <<IF i = k THEN "GET failed" ELSE "GET", PRISM_RASTERS[i]>>]
            /\ scratch' = {PRISM_RASTERS[k]}
            /\ Raise("FetchFailed") /\ faulted' = TRUE
            /\ UNCHANGED frame
    /\ UNCHANGED <<prism_normals, county_boundaries, results>>
    /\ LoaderFrame

\* lines 167-176: delete the climate rows of the region's plots
PrismDelete ==
    /\ pc = "prism_delete"
    /\ prism_normals' =
         {r \in prism_normals :
            ~ \E p \in fia_plot : p.statecd = statecd /\ p.cn = r.plot_cn}
    /\ log' = Append(log, <<"delete", "prism_normals">>)
    /\ pc' = "prism_append"
    /\ UNCHANGED <<county_boundaries, error, scratch, faulted, results, frame>>
    /\ LoaderFrame

\* lines 178-192: append the sampled rows and return
PrismAppend ==
    /\ pc = "prism_append"
    /\ prism_normals' = prism_normals \cup frame
    /\ log' = Append(log, <<"append", "prism_normals">>)
    /\ results' = {<<"plots_sampled", Cardinality(frame)>>}
    /\ pc' = "done"
    /\ UNCHANGED <<county_boundaries, error, scratch, faulted, frame>>
    /\ LoaderFrame

\* str(statecd).zfill(2)
zfill2(n) ==
    LET digit == <<"0", "1", "2", "3", "4", "5", "6", "7", "8", "9">>
    IN  digit[(n \div 10) + 1] \o digit[(n % 10) + 1]

\* a loader that downloads the shapefile before it validates the region
DownloadThenValidate(ident) ==
    /\ pc = "idle"
    /\ Enter("tiger", ident, "tiger_read", << <<"GET", "county.zip">> >>)

\* tiger_loader.py lines 52-57
LoadCountyBoundaries(ident) ==
    /\ pc = "idle"
    /\ Enter("tiger", ident, "tiger_download", <<>>)

\* lines 28-44, 59: download_shapefile(TIGER_URL)
DownloadShapefile ==
    /\ pc = "tiger_download"
    /\ \/ /\ log' = log \o << <<"mkdtemp", "tiger">>, <<"GET", "county.zip">> >>
          /\ scratch' = {"tiger_dir", "county.zip"}
          /\ pc' = "tiger_read"
          /\ UNCHANGED <<error, faulted>>
       \/ /\ log' = log \o << <<"mkdtemp", "tiger">>, <<"GET failed", "county.zip">> >>
          /\ scratch' = {"tiger_dir"}
          /\ Raise("FetchFailed") /\ faulted' = TRUE
    /\ UNCHANGED <<prism_normals, county_boundaries, results, frame>>
    /\ LoaderFrame

\* a read that treats a region without features as an error
TigerReadRaisesOnEmpty ==
    /\ pc = "tiger_read"
    /\ scratch' = scratch \ {"county.zip"}
    /\ LET gdf == {f \in tiger : f.statefp = zfill2(statecd)} IN
          /\ frame' = gdf
          /\ IF gdf = {}
             THEN Raise("ValueError")
             ELSE pc' = "tiger_delete" /\ UNCHANGED error
    /\ UNCHANGED <<prism_normals, county_boundaries, log, results, faulted>>
    /\ LoaderFrame

\* lines 60-70: parse, remove the archive, keep the region's features
TigerRead ==
    /\ pc = "tiger_read"
    /\ scratch' = scratch \ {"county.zip"}
    /\ \/ LET gdf == {f \in tiger : f.statefp = zfill2(statecd)} IN
          /\ frame' = gdf
          /\ IF gdf = {}
             THEN pc' = "done" /\ results' = {<<"counties_loaded", 0>>}
             ELSE pc' = "tiger_delete" /\ UNCHANGED results
          /\ UNCHANGED <<error, faulted>>
       \/ /\ Raise("ArchiveFormatError") /\ faulted' = TRUE
          /\ UNCHANGED <<frame, results>>
    /\ UNCHANGED <<prism_normals, county_boundaries, log>>
    /\ LoaderFrame

\* lines 92-97: delete the region's boundaries
TigerDelete ==
    /\ pc = "tiger_delete"
    /\ county_boundaries' = delete_state_data(county_boundaries, statecd)
    /\ log' = Append(log, <<"delete", "county_boundaries">>)
    /\ pc' = "tiger_append"
    /\ UNCHANGED <<prism_normals, error, scratch, faulted, results, frame>>
    /\ LoaderFrame

\* lines 73-83, 100-111: map the fields, append, return
TigerAppend ==
    /\ pc = "tiger_append"
    /\ county_boundaries' = county_boundaries \cup
         {[geoid |-> f.geoid, statecd |-> statecd] : f \in frame}
    /\ log' = Append(log, <<"append", "county_boundaries">>)
    /\ results' = {<<"counties_loaded", Cardinality(frame)>>}
    /\ pc' = "done"
    /\ UNCHANGED <<prism_normals, error, scratch, faulted, frame>>
    /\ LoaderFrame

----------------------------------------------------------------------------
(* trigger_ingestion: the response built from ingest_state's outcome *)

RECURSIVE SumRows(_)
\* sum(t["rows"] for t in result["tables"].values())
SumRows(res) ==
    IF res = {} THEN 0
    ELSE LET e == CHOOSE x \in res : TRUE IN e[2] + SumRows(res \ {e})

\* a handler that reports the rows loaded before the failure
report_partial(abbr, err, res) ==
    [state |-> abbr, table |-> "ALL", rows_ingested |-> SumRows(res),
     status |-> IF err = "none" THEN "completed" ELSE "failed",
     message |-> IF err = "none" THEN "Ingested" ELSE err]

\* routes.py lines 296-318: err is the exception ingest_state raised ("none"
\* if it returned), res the table summary it returned
trigger_ingestion(abbr, err, res) ==
    IF err = "none"
    THEN [state |-> abbr, table |-> "ALL", rows_ingested |-> SumRows(res),
          status |-> "completed", message |-> "Ingested"]
    ELSE [state |-> abbr, table |-> "ALL", rows_ingested |-> 0,
          status |-> "failed", message |-> err]

----------------------------------------------------------------------------
(* The read-only checks and aggregates over the loaded tables *)

\* the six checks of qa_engine.py with the severity each reports when
\* records have failed
QA_CHECKS ==
    [n \in {"null_coordinates", "coordinate_bounds_conus",
            "negative_carbon_or_biomass", "diameter_outliers",
            "orphaned_trees", "inventory_year_range"} |->
        IF n \in {"null_coordinates", "negative_carbon_or_biomass",
                  "orphaned_trees"}
        THEN "error" ELSE "warning"]

\* the quotient a / b of two counts, b # 0, kept as a fraction
ratio(a, b) == [num |-> a, den |-> b]

\* a result whose rate divides by the total whatever it is
unguarded_rate(name, total, failed) ==
    [check_name |-> name,
     severity |-> IF failed > 0 THEN QA_CHECKS[name] ELSE "info",
     records_checked |-> total, records_failed |-> failed,
     failure_rate |-> ratio(failed, total)]

\* the QACheckResult each check builds from the (total, failed) row
QACheckResult(name, total, failed) ==
    [check_name |-> name,
     severity |-> IF failed > 0 THEN QA_CHECKS[name] ELSE "info",
     records_checked |-> total, records_failed |-> failed,
     failure_rate |-> IF total > 0 THEN ratio(failed, total) ELSE ratio(0, 1)]

\* qa_engine.py lines 135-168; cd = 0 stands for a call without statecd
check_orphaned_trees(plots, trees, cd) ==
    LET scope == IF cd # 0
                 THEN {t \in trees : \E q \in plots :
                                        q.cn = t.plt_cn /\ q.statecd = cd}
                 ELSE trees
        subquery == {q.cn : q \in {x \in plots : cd = 0 \/ x.statecd = cd}}
    IN  QACheckResult("orphaned_trees", Cardinality(scope),
                      Cardinality({t \in scope : t.plt_cn \notin subquery}))

\* carbon.py lines 19-68: the counts of the aggregate row (every stored tree
\* is a live tree); data_available is not passed and keeps its default
get_carbon_summary(plots, trees, cd) ==
    LET joined == {pt \in plots \X trees :
                     pt[2].plt_cn = pt[1].cn /\ pt[1].statecd = cd}
    IN  IF joined = {}
        THEN [statecd |-> cd, total_plots |-> 0, total_trees |-> 0,
              total_carbon_ag_tons |-> 0, total_carbon_bg_tons |-> 0,
              avg_carbon_per_acre_tons |-> 0, species_count |-> 0,
              most_recent_inventory |-> 0, loblolly_pine_pct |-> 0,
              data_available |-> TRUE]
        ELSE [statecd |-> cd,
              total_plots |-> Cardinality({pt[1].cn : pt \in joined}),
              total_trees |-> Cardinality({pt[2].cn : pt \in joined}),
              data_available |-> TRUE]

\* a read-only call: its arguments are kept in frame, its answer in results
Query(name, args, answer) ==
    /\ pipeline' = name /\ frame' = args /\ results' = answer
    /\ pc' = "done"
    /\ UNCHANGED <<aborted, source, tiger, prism, fia_plot, fia_cond, fia_tree,
                   prism_normals, county_boundaries, state_abbr, statecd,
                   tables, ti, di, ci, total_rows, error, scratch, log,
                   faulted, repeat, prevCounts, startDangling>>

\* Largest count a check's query returns
MaxCount == 3

\* one of the six checks, on the (total, failed) row the store returns
RunQaCheck ==
    /\ pc = "idle"
    /\ \E name \in DOMAIN QA_CHECKS, total \in 0..MaxCount, failed \in 0..MaxCount :
         Query("qa", [check |-> name, total |-> total, failed |-> failed],
               QACheckResult(name, total, failed))

CheckOrphanedTrees ==
    /\ pc = "idle"
    /\ \E cd \in {0, 37, 45} :
         Query("orphaned_trees", [statecd |-> cd],
               check_orphaned_trees(fia_plot, fia_tree, cd))

GetCarbonSummary ==
    /\ pc = "idle"
    /\ \E cd \in {37, 45} :
         Query("summary", [statecd |-> cd],
               get_carbon_summary(fia_plot, fia_tree, cd))

----------------------------------------------------------------------------
(* Specifications *)

Next ==
    \/ \E ident \in Idents, tabs \in TableLists : IngestState(ident, tabs)
    \/ Rerun
    \/ Return
    \/ DeleteStep
    \/ NextTable
    \/ DownloadFiaCsv
    \/ IngestChunk
    \/ EndOfChunks
    \/ UpdatePlotGeometry

\* the three loaders, ingest_state with its default table list
NextLoaders ==
    \/ \E ident \in Idents : IngestState(ident, <<>>)
    \/ \E ident \in Idents : LoadPrismNormals(ident)
    \/ \E ident \in Idents : LoadCountyBoundaries(ident)
    \/ Return
    \/ DeleteStep
    \/ NextTable
    \/ DownloadFiaCsv
    \/ IngestChunk
    \/ EndOfChunks
    \/ UpdatePlotGeometry
    \/ PrismSelectPlots
    \/ PrismRasters
    \/ PrismDelete
    \/ PrismAppend
    \/ DownloadShapefile
    \/ TigerRead
    \/ TigerDelete
    \/ TigerAppend

LoaderSnapshots ==
    {SnapshotOf(lat, 37, FALSE, TRUE, "one") : lat \in {NaN, "35.5"}}

InitLoaders ==
    /\ InitWith(LoaderSnapshots, TigerFiles, [{1, 2} -> CoverPatterns])
    /\ frame = {}

SpecLoaders == InitLoaders /\ [][NextLoaders]_vars

\* The three loaders over files of region 37 in which plot 2 and its tree
\* are filed under a STATECD that no region of the catalog has.
CatalogSnapshots ==
    {SnapshotOf(lat, 99, split, FALSE, "two") :
        lat \in {NaN, "35.5"}, split \in BOOLEAN}

InitCatalog ==
    /\ InitWith(CatalogSnapshots, TigerFiles, {[cn \in {1, 2} |-> {}]})
    /\ frame = {}

SpecCatalog == InitCatalog /\ [][NextLoaders]_vars

Spec == Init /\ [][Next]_vars

\* ingest_state with its default table list, and the read-only calls on
\* the tables it has loaded
NextQueries ==
    \/ \E ident \in Idents : IngestState(ident, <<>>)
    \/ Return
    \/ DeleteStep
    \/ NextTable
    \/ DownloadFiaCsv
    \/ IngestChunk
    \/ EndOfChunks
    \/ UpdatePlotGeometry
    \/ RunQaCheck
    \/ CheckOrphanedTrees
    \/ GetCarbonSummary

QuerySnapshots ==
    {SnapshotOf(lat, 37, FALSE, FALSE, "two") : lat \in {NaN, "35.5"}}

InitQueries ==
    /\ InitWith(QuerySnapshots, {{}}, {[cn \in {1, 2} |-> {}]})
    /\ frame = {}

SpecQueries == InitQueries /\ [][NextQueries]_vars

\* Two regions, each with its own files on the remote side. The files of
\* region 37 are republished between runs: plot 1 and its tree are in one
\* snapshot and withdrawn in the other.
RegionIdents == {"nc", "sc"}

NcSnapshots ==
    {SnapshotOf("35.5", 37, FALSE, FALSE, "one"),
     [PLOT |-> <<{PlotRow(2, 37, "35.5", "-78.5")}>>, COND |-> <<>>,
      TREE |-> <<>>]}

ScSnapshot ==
    [PLOT |-> <<{PlotRow(3, 45, "34.0", "-81.0")}>>, COND |-> <<>>,
     TREE |-> <<{ChildRow(3, 3, 45)}>>]

InitRegions ==
    /\ \E nc \in NcSnapshots : source = [a \in {"NC", "SC"} |->
                                          IF a = "NC" THEN nc ELSE ScSnapshot]
    /\ tiger = {[geoid |-> "37001", statefp |-> "37"],
                [geoid |-> "45001", statefp |-> "45"]}
    /\ prism = [cn \in {1, 2, 3} |-> Range(PRISM_RASTERS)]
    /\ Quiescent
    /\ frame = {}

\* the remote side publishes another snapshot of a region's files
Publish ==
    /\ pc = "idle"
    /\ \E snap \in NcSnapshots \ {source["NC"]} :
         source' = [source EXCEPT !["NC"] = snap]
    /\ UNCHANGED <<tiger, prism, fia_plot, fia_cond, fia_tree, prism_normals,
                   county_boundaries, pipeline, pc, state_abbr, statecd,
                   tables, ti, di, ci, total_rows, results, error, scratch,
                   log, faulted, repeat, prevCounts, startDangling, frame,
                   aborted>>

NextRegions ==
    \/ \E ident \in RegionIdents : IngestState(ident, <<>>)
    \/ \E ident \in RegionIdents : LoadPrismNormals(ident)
    \/ \E ident \in RegionIdents : LoadCountyBoundaries(ident)
    \/ ReturnNoted
    \/ Publish
    \/ DeleteStep
    \/ NextTable
    \/ DownloadFiaCsv
    \/ IngestChunk
    \/ EndOfChunks
    \/ UpdatePlotGeometry
    \/ PrismSelectPlots
    \/ PrismRasters
    \/ PrismDelete
    \/ PrismAppend
    \/ DownloadShapefile
    \/ TigerRead
    \/ TigerDelete
    \/ TigerAppend

SpecRegions == InitRegions /\ [][NextRegions]_vars

\* The transforms on their own: a chunk with its column names is drawn and
\* the transform of its table is applied to it.
SometimesMissing(t) ==
    CASE t = "PLOT" -> {"LAT", "LON", "ELEV", "ECOSUBCD"}
      [] t = "COND" -> {"PLT_CN", "STDAGE"}
      [] t = "TREE" -> {"PLT_CN", "CARBON_AG"}

ChunkColumns(t) ==
    {(Range(COLS(t)) \ m) \cup e :
        m \in SUBSET SometimesMissing(t), e \in SUBSET {"EXTRA", "Lat"}}

ChunkRows(t) ==
    IF t = "PLOT"
    THEN {S \in SUBSET {PlotRow(cn, 37, lat, lon) :
                          cn \in {1, 2}, lat \in {NaN, "35.5"},
                          lon \in {NaN, "-79.0"}} :
            \A r, q \in S : r.cn = q.cn => r = q}
    ELSE SUBSET {ChildRow(1, 1, 37), ChildRow(2, 2, 37)}

InputChunks ==
    {[table |-> t, columns |-> c, rows |-> r] :
        t \in {"PLOT"}, c \in ChunkColumns("PLOT"), r \in ChunkRows("PLOT")}
    \cup
    {[table |-> t, columns |-> c, rows |-> r] :
        t \in {"COND"}, c \in ChunkColumns("COND"), r \in ChunkRows("COND")}
    \cup
    {[table |-> t, columns |-> c, rows |-> r] :
        t \in {"TREE"}, c \in ChunkColumns("TREE"), r \in ChunkRows("TREE")}

InitClean ==
    /\ InitWith({EmptySnapshot}, {{}}, {[cn \in {1, 2} |-> {}]})
    /\ frame \in InputChunks

Apply(t) ==
    /\ pc = "idle" /\ frame.table = t
    /\ pipeline' = "clean"
    /\ results' = clean_df(t, frame)
    /\ pc' = "done"
    /\ UNCHANGED <<aborted, source, tiger, prism, fia_plot, fia_cond, fia_tree,
                   prism_normals, county_boundaries, state_abbr, statecd,
                   tables, ti, di, ci, total_rows, error, scratch, log,
                   faulted, repeat, prevCounts, startDangling, frame>>

CleanPlotDf == frame.table = "PLOT" /\ Apply("PLOT")
CleanCondDf == frame.table = "COND" /\ Apply("COND")
CleanTreeDf == frame.table = "TREE" /\ Apply("TREE")

NextClean == CleanPlotDf \/ CleanCondDf \/ CleanTreeDf

SpecClean == InitClean /\ [][NextClean]_vars

\* The raster sampler on its own. A grid of one row and two columns whose
\* upper left corner is at longitude -80, latitude 36, with cells of one
\* degree; coordinates are whole degrees.
NODATA == -9999

\* Longest coordinate array that is sampled
MaxPoints == 2

Grids ==
    {[height |-> 1, width |-> 2, left |-> -80, top |-> 36, cells |-> c] :
        c \in [{0} \X {0, 1} -> {-10000, NODATA, 5, 21}]}

\* src.index(lon, lat): the row and the column of the cell that holds the
\* coordinate, inside the grid or not
index(src, lon, lat) == <<src.top - lat, lon - src.left>>

Coordinates == [lon : -81..-78, lat : 35..37]

\* an element of the float array that is returned: np.nan or a number
nan == [isnan |-> TRUE]
float(v) == [isnan |-> FALSE, val |-> v]

\* lines 73-87
sample_raster_at_points(src, lats, lons) ==
    [i \in 1..Len(lats) |->
        LET rc == index(src, lons[i], lats[i])
        IN  IF 0 <= rc[1] /\ rc[1] < src.height /\ 0 <= rc[2] /\ rc[2] < src.width
            THEN LET val == src.cells[rc]
                 IN  IF val > NODATA THEN float(val) ELSE nan
            ELSE nan]

InitRaster ==
    /\ InitWith({EmptySnapshot}, {{}}, {[cn \in {1, 2} |-> {}]})
    /\ \E src \in Grids, n \in 0..MaxPoints :
         \E pts \in [1..n -> Coordinates] :
           frame = [src |-> src,
                    lats |-> [i \in 1..n |-> pts[i].lat],
                    lons |-> [i \in 1..n |-> pts[i].lon]]

SampleRasterAtPoints ==
    /\ pc = "idle"
    /\ pipeline' = "raster"
    /\ results' = sample_raster_at_points(frame.src, frame.lats, frame.lons)
    /\ pc' = "done"
    /\ UNCHANGED <<aborted, source, tiger, prism, fia_plot, fia_cond, fia_tree,
                   prism_normals, county_boundaries, state_abbr, statecd,
                   tables, ti, di, ci, total_rows, error, scratch, log,
                   faulted, repeat, prevCounts, startDangling, frame>>

NextRaster == SampleRasterAtPoints

SpecRaster == InitRaster /\ [][NextRaster]_vars

\* The archive fallback of download_fia_csv on its own: the member names of
\* the downloaded archive, in archive order, and the table that was asked.
MaxMembers == 3

MemberNames == {"NC_PLOT.csv", "NC_TREE.csv", "README.txt"}

\* the file name of a table's CSV, as in the URL f"{state_abbr}_{table_name}.csv"
csv_of(t) ==
    CASE t = "PLOT" -> "NC_PLOT.csv"
      [] t = "COND" -> "NC_COND.csv"
      [] t = "TREE" -> "NC_TREE.csv"

\* lines 172-177: csv_name = zf.namelist()[0], copied to csv_tmp
extract_csv(namelist) ==
    IF namelist = <<>>
    THEN [err |-> "IndexError", member |-> "none"]
    ELSE [err |-> "none", member |-> namelist[1]]

InitArchive ==
    /\ InitWith({EmptySnapshot}, {{}}, {[cn \in {1, 2} |-> {}]})
    /\ \E t \in {"PLOT", "COND", "TREE"}, n \in 0..MaxMembers :
         \E names \in [1..n -> MemberNames] :
           frame = [table |-> t, namelist |-> names]

ExtractCsv ==
    /\ pc = "idle"
    /\ pipeline' = "archive"
    /\ results' = extract_csv(frame.namelist)
    /\ pc' = "done"
    /\ UNCHANGED <<aborted, source, tiger, prism, fia_plot, fia_cond, fia_tree,
                   prism_normals, county_boundaries, state_abbr, statecd,
                   tables, ti, di, ci, total_rows, error, scratch, log,
                   faulted, repeat, prevCounts, startDangling, frame>>

NextArchive == ExtractCsv

SpecArchive == InitArchive /\ [][NextArchive]_vars

----------------------------------------------------------------------------
(* Properties *)

Finished  == pipeline = "fia" /\ pc = "done"
Completed == Finished /\ error = "none"

Events(kind) == {i \in DOMAIN log : log[i][1] = kind}

\* C1: FK-safety. After an ingest_state run over PLOT, COND and TREE that
\* completes without error, every fia_tree and fia_cond row of the region
\* has a plt_cn equal to the cn of a fia_plot row of the same region.
C1_FkSafety ==
    (Completed /\ {"PLOT", "COND", "TREE"} \subseteq Range(tables))
    => \A r \in fia_tree \cup fia_cond :
         r.statecd = statecd
         => \E p \in fia_plot : p.cn = r.plt_cn /\ p.statecd = statecd

\* C2: Idempotence. A run that repeats the previous completed run (same
\* region, same table list, same source snapshot) and meets no environment
\* fault ends with the same number of region rows in every requested table.
C2_Idempotent ==
    (Finished /\ repeat /\ ~ faulted)
    => \A t \in pg_tables_to_load(tables) :
         RegionCount(t, statecd) = prevCounts[t]

\* dependents come first in a delete, parents first in a load
DependentRank(t) ==
    CASE t = "fia_tree" -> 1 [] t = "fia_cond" -> 2 [] t = "fia_plot" -> 3

\* C3: region deletes are issued only for the recognized requested tables,
\* dependents first (fia_tree, fia_cond, fia_plot) whatever the order of the
\* caller's list, and all of them before the first chunk append of the run.
C3_DeleteOrder ==
    pipeline = "fia" =>
      /\ \A i \in Events("delete") : log[i][2] \in pg_tables_to_load(tables)
      /\ \A i, j \in Events("delete") :
            i < j => DependentRank(log[i][2]) < DependentRank(log[j][2])
      /\ \A a \in Events("append") \cup Events("HEAD") :
            /\ \A i \in Events("delete") : i < a
            /\ {log[i][2] : i \in Events("delete")} = pg_tables_to_load(tables)

\* a run whose list is not in dependency order has deleted and appended
C3_Witness ==
    /\ pipeline = "fia" /\ tables = <<"PLOT", "TREE">>
    /\ Cardinality(Events("delete")) = 2
    /\ Events("append") # {}

\* C4: tables are loaded parents first: no fia_cond or fia_tree chunk is
\* appended before a fia_plot chunk of the run, and no fia_tree chunk before
\* a fia_cond chunk, whatever the order of the caller's list.
C4_LoadOrder ==
    pipeline = "fia" =>
      \A i, j \in Events("append") :
        i < j => DependentRank(log[i][2]) >= DependentRank(log[j][2])

\* C5: in every state between two transactions of a run that started with
\* no dangling row, no fia_tree or fia_cond row of the region references a
\* plot cn that is absent from fia_plot.
C5_NeverDangling ==
    (pipeline = "fia" /\ ~ startDangling) => Dangling(statecd) = {}

\* C6: for an identifier whose upper-cased form is not a key of STATE_CODES,
\* ingest_state, load_prism_normals and load_county_boundaries each raise
\* the unknown-region error before any HTTP request, any scratch file and
\* any store read or write.
C6_UnknownRegion ==
    (pipeline # "none" /\ state_abbr \notin DOMAIN STATE_CODES)
    => /\ pc = "done" /\ error = "UnknownRegion"
       /\ log = <<>> /\ scratch = {}

\* the county loader has rejected an identifier
C6_Witness ==
    /\ pipeline = "tiger" /\ state_abbr = "XX"
    /\ pc = "done" /\ error = "UnknownRegion"

\* C7: every scratch file that download_fia_csv created is gone when control
\* leaves the table's processing, on every exit path (success, HTTP error,
\* archive failure, transform failure, append failure, backfill failure).
C7_ScratchRemoved ==
    (pipeline = "fia" /\ pc \in {"load", "done"}) => scratch = {}

fia_rows == <<fia_plot, fia_cond, fia_tree>>

\* C8: when the append of a chunk fails, its transaction is rolled back
\* (the store is as it was before the chunk, so the earlier chunks and the
\* earlier tables stay committed), the error reaches the caller, and
\* nothing more is appended in that run.
C8_ChunkFailure ==
    [][ /\ (pc = "chunks" /\ Events("append failed")' # {})
           => (fia_rows' = fia_rows /\ pc' = "done" /\ error' = "LoadFailed")
        /\ (pipeline = "fia" /\ pc = "done" /\ error # "none")
           => fia_rows' = fia_rows ]_vars

\* the second chunk of the second table has failed
C8_Witness ==
    /\ Finished /\ error = "LoadFailed"
    /\ ti = 2 /\ ci = 2 /\ total_rows > 0
    /\ Events("append failed") # {}
    /\ fia_plot # {} /\ fia_tree # {}

\* C9 (as stated): when the fetch of table T fails, no row is appended to T
\* in that run.
C9_NothingAppendedToT ==
    (Finished /\ error = "FetchFailed")
    => \A i \in Events("append") : log[i][2] # PgTable

\* C9 (amended): when the GET of table T fails, the run ends at once with
\* the fetch error, that step and every later one leave the store as it
\* was, so the rows loaded earlier in the run (those of an earlier
\* occurrence of T included) stay committed and nothing is appended after
\* the failure.
C9_FetchFailure ==
    [][ (pipeline' = "fia" /\ Events("GET failed")' # {})
        => /\ pc' = "done" /\ error' = "FetchFailed"
           /\ fia_rows' = fia_rows
           /\ \A g \in Events("GET failed")', a \in Events("append")' : a < g ]_vars

\* the fetch of the second table failed after the first table was loaded
C9_Witness ==
    /\ Finished /\ error = "FetchFailed" /\ ti = 2
    /\ Events("append") # {} /\ fia_plot # {}

\* C10: after a run that includes PLOT and completes without error, every
\* fia_plot row of the region has a geometry; and no plot chunk is appended
\* after the backfill has run.
C10_Geometry ==
    /\ (Completed /\ "PLOT" \in Range(tables))
       => \A p \in fia_plot : p.statecd = statecd => p.geom # "NULL"
    /\ pipeline = "fia"
       => \A g \in Events("geom"), a \in Events("append") :
            log[a][2] = "fia_plot" => a < g

\* a completed run has loaded plots of the region in two chunks
C10_Witness ==
    /\ Completed /\ "PLOT" \in Range(tables)
    /\ Cardinality({p \in fia_plot : p.statecd = statecd}) = 2
    /\ Cardinality({a \in Events("append") : log[a][2] = "fia_plot"}) = 2
    /\ Events("geom") # {}

\* the region's fia_plot rows that have coordinates
RegionPlots ==
    {p \in fia_plot : p.statecd = statecd /\ p.lat # NaN /\ p.lon # NaN}

\* C16: load_prism_normals for a valid region that has no fia_plot row with
\* coordinates returns plots_sampled = 0 without raising, issues no delete
\* against prism_normals and downloads no raster.
C16_NoPlots ==
    (pipeline = "prism" /\ statecd # 0 /\ RegionPlots = {})
    => /\ pc \in {"prism_select", "done"}
       /\ error = "none"
       /\ Events("delete") = {} /\ Events("GET") = {}
       /\ Events("GET failed") = {} /\ scratch = {}
       /\ pc = "done" => results = {<<"plots_sampled", 0>>}

\* the run has returned for a region without plots while climate rows of
\* an earlier load are still stored
C16_Witness ==
    /\ pipeline = "prism" /\ pc = "done" /\ statecd = 37
    /\ RegionPlots = {} /\ prism_normals # {}
    /\ results = {<<"plots_sampled", 0>>}

\* C17: load_county_boundaries for a valid region whose filtered national
\* file has no feature returns counties_loaded = 0 and raises no error;
\* nothing is deleted from or appended to county_boundaries.
C17_NoFeatures ==
    (/\ pipeline = "tiger" /\ pc = "done" /\ statecd # 0 /\ ~ faulted
     /\ ~ \E f \in tiger : f.statefp = zfill2(statecd))
    => /\ error = "none"
       /\ results = {<<"counties_loaded", 0>>}
       /\ Events("delete") = {} /\ Events("append") = {}

\* the national file was read, it has features, none of the region
C17_Witness ==
    /\ pipeline = "tiger" /\ pc = "done" /\ statecd = 37 /\ ~ faulted
    /\ tiger # {} /\ ~ \E f \in tiger : f.statefp = "37"
    /\ Events("GET") # {}
    /\ results = {<<"counties_loaded", 0>>}

\* C20: the prism_normals rows a load appends are exactly the rows of the
\* region's plots for which at least one of the five derived fields is not
\* missing, and plots_sampled is their number.
C20_RowsAppended ==
    [][ pc = "prism_append"
        => LET kept == {cn \in {p.cn : p \in RegionPlots} :
                          \E c \in climate_cols : ResultRow(cn)[c] # NaN}
           IN  /\ prism_normals' \ prism_normals = {ResultRow(cn) : cn \in kept}
               /\ {r.plot_cn : r \in prism_normals'} \cap {p.cn : p \in RegionPlots}
                    = kept
               /\ results' = {<<"plots_sampled", Cardinality(kept)>>} ]_vars

\* a load has kept one plot that has a growing-season value only and has
\* dropped another that has no value at all
C20_Witness ==
    /\ pipeline = "prism" /\ pc = "done" /\ error = "none"
    /\ Cardinality(RegionPlots) = 2
    /\ results = {<<"plots_sampled", 1>>}
    /\ \E r \in prism_normals :
         r.annual_tmean_f = NaN /\ r.growing_season_ppt_in # NaN

\* the names of the caller's list that table_config knows
Recognized == {t \in Range(tables) : t \in DOMAIN table_config}

\* C15: a table name outside PLOT, COND, TREE is skipped without raising: no
\* delete, fetch or append is issued for it and the summary has no entry
\* for it, and every recognized table of the list is still deleted,
\* fetched and loaded.
C15_UnknownTableSkipped ==
    (pipeline = "fia" /\ state_abbr \in DOMAIN STATE_CODES) =>
      /\ \A i \in DOMAIN log :
           log[i][2] \notin DOMAIN table_config \cup Range(DELETE_ORDER)
             => log[i][1] = "warning"
      /\ \A e \in results : e[1] \in DOMAIN table_config
      /\ (error # "none") => (faulted \/ Events("append failed") # {})
      /\ (Finished /\ ~ faulted /\ Events("append failed") = {})
           => \A t \in Recognized :
                /\ \E i \in Events("delete") : log[i][2] = table_config[t].pg_table
                /\ \E i \in Events("GET") : log[i][2] = t
                /\ \E e \in results : e[1] = t
                /\ \/ \E i \in Events("append") :
                         log[i][2] = table_config[t].pg_table
                   \/ \A k \in DOMAIN source[state_abbr][t] :
                         clean_fn(t, source[state_abbr][t][k]) = {}

\* a run over an unknown name followed by PLOT has completed and has
\* loaded plots
C15_Witness ==
    /\ Completed /\ tables = <<"SOIL", "PLOT">>
    /\ Events("warning") # {} /\ Events("append") # {}
    /\ \E p \in fia_plot : p.statecd = statecd
    /\ \E e \in results : e[1] = "PLOT" /\ e[2] > 0

\* the transform has returned a frame
Cleaned(t) ==
    pipeline = "clean" /\ pc = "done" /\ frame.table = t /\ results.err = "none"

C19_Sampling ==
    (pipeline = "raster" /\ pc = "done") =>
      /\ Len(results) = Len(frame.lats)
      /\ \A i \in 1..Len(frame.lats) :
           LET row == frame.src.top - frame.lats[i]
               col == frame.lons[i] - frame.src.left
               inside == /\ row \in 0..(frame.src.height - 1)
                         /\ col \in 0..(frame.src.width - 1)
           IN  results[i] =
                 IF ~ inside THEN nan
                 ELSE IF frame.src.cells[<<row, col>>] = NODATA THEN nan
                 ELSE float(frame.src.cells[<<row, col>>])

\* C12: at no time does a row of fia_plot, fia_cond, fia_tree or
\* county_boundaries carry a statecd that is not a code of the region
\* catalog: a source row with such a STATECD is never appended.
C12_CatalogCodesOnly ==
    \A r \in fia_plot \cup fia_cond \cup fia_tree \cup county_boundaries :
        \E a \in DOMAIN STATE_CODES : STATE_CODES[a] = r.statecd

\* the rows that carry another region code than cd
Foreign(rows, cd) == {r \in rows : r.statecd # cd}

\* the climate rows of the plots of another region than cd
ForeignClimate(rows, cd) ==
    {r \in rows : \E p \in fia_plot : p.cn = r.plot_cn /\ p.statecd # cd}

\* C11: region isolation. No step of a run of ingest_state,
\* load_prism_normals or load_county_boundaries for a region deletes, inserts
\* or updates a row that carries another region code (for prism_normals:
\* a row of a plot of another region).
C11_RegionIsolation ==
    [][ (pipeline' \in {"fia", "prism", "tiger"} /\ statecd' # 0)
        => /\ Foreign(fia_plot', statecd') = Foreign(fia_plot, statecd')
           /\ Foreign(fia_cond', statecd') = Foreign(fia_cond, statecd')
           /\ Foreign(fia_tree', statecd') = Foreign(fia_tree, statecd')
           /\ Foreign(county_boundaries', statecd')
                = Foreign(county_boundaries, statecd')
           /\ ForeignClimate(prism_normals', statecd')
                = ForeignClimate(prism_normals, statecd') ]_vars

\* C18: after any sequence of completed ingest_state and load_prism_normals
\* runs, a re-ingestion from a changed snapshot included, every
\* prism_normals row has the cn of a stored fia_plot row as its plot_cn and
\* no fia_plot row has more than one prism_normals row.
C18_ClimateOneToOne ==
    (/\ ~ aborted
     /\ \/ pc = "idle"
        \/ pc = "done" /\ error = "none" /\ pipeline \in {"fia", "prism"})
    => /\ \A r \in prism_normals : \E p \in fia_plot : p.cn = r.plot_cn
       /\ \A p \in fia_plot :
            Cardinality({r \in prism_normals : r.plot_cn = p.cn}) <= 1

\* C21: in the archive fallback the member that is extracted and returned
\* is the first member of the archive that is the requested table's CSV;
\* an archive without such a member makes the fetch fail instead of
\* returning another member's content.
C21_FirstMatchingMember ==
    (pipeline = "archive" /\ pc = "done") =>
      LET names == frame.namelist
          matching == {i \in DOMAIN names : names[i] = csv_of(frame.table)}
      IN  IF matching = {}
          THEN results.err # "none"
          ELSE /\ results.err = "none"
               /\ results.member = csv_of(frame.table)
               /\ results.member
                    = names[CHOOSE i \in matching : \A j \in matching : i <= j]

\* C22: every scratch directory and file that _download_prism_bil created
\* has been removed when load_prism_normals leaves its download-and-sample
\* phase, whether the phase ended normally or the k-th download failed.
C22_PrismScratchRemoved ==
    (pipeline = "prism" /\ pc \in {"prism_delete", "prism_append", "done"})
    => scratch = {}

\* the response of trigger_ingestion to the run that has ended
Response == trigger_ingestion(state_abbr, error, results)

\* C23: when some tables of a run have loaded and a later table fails, the
\* trigger reports each table on its own: every table that loaded is
\* reported as loaded with its row count.
C23_PerTableReport ==
    (Finished /\ error # "none")
    => \A e \in results :
         \E report \in {Response} :
           /\ report.table = e[1]
           /\ report.status = "completed"
           /\ report.rows_ingested = e[2]

\* the rows of table t in the summary that ingest_state returned
RowsOf(t) == IF \E e \in results : e[1] = t
             THEN (CHOOSE e \in results : e[1] = t)[2] ELSE 0

\* C30: trigger_ingestion always answers. When ingest_state has returned the
\* status is "completed" and rows_ingested is the sum of the per-table row
\* counts; when it has raised the status is "failed", rows_ingested is 0
\* and the message is the exception's text.
C30_TriggerResponse ==
    Finished =>
      /\ Response.state = state_abbr /\ Response.table = "ALL"
      /\ error = "none" =>
            /\ Response.status = "completed"
            /\ Response.rows_ingested
                 = RowsOf("PLOT") + RowsOf("COND") + RowsOf("TREE")
      /\ error # "none" =>
            /\ Response.status = "failed"
            /\ Response.rows_ingested = 0
            /\ Response.message = error

\* the store failed after the plots of the run were committed
C30_Witness ==
    /\ Finished /\ error = "LoadFailed"
    /\ \E e \in results : e[1] = "PLOT" /\ e[2] > 0
    /\ \E p \in fia_plot : p.statecd = statecd
    /\ Response.status = "failed"

\* C24: for each of the six checks and every (total, failed) row, the
\* severity is "info" when failed = 0 and otherwise "error" for
\* null_coordinates, negative_carbon_or_biomass and orphaned_trees and
\* "warning" for the three others; records_checked = total,
\* records_failed = failed; failure_rate is failed / total when total > 0
\* and 0.0 when total = 0, and nothing is divided by zero.
C24_QaResult ==
    (pipeline = "qa" /\ pc = "done") =>
      /\ results.check_name = frame.check
      /\ results.severity =
           IF frame.failed = 0 THEN "info"
           ELSE IF frame.check \in {"null_coordinates", "orphaned_trees",
                                    "negative_carbon_or_biomass"}
                THEN "error" ELSE "warning"
      /\ results.records_checked = frame.total
      /\ results.records_failed = frame.failed
      /\ results.failure_rate.den # 0
      /\ IF frame.total > 0
         THEN results.failure_rate.num * frame.total
                = frame.failed * results.failure_rate.den
         ELSE results.failure_rate.num = 0

\* a check whose query returned no record has answered
C24_Witness ==
    /\ pipeline = "qa" /\ pc = "done"
    /\ frame.check = "diameter_outliers" /\ frame.total = 0
    /\ results.severity = "info" /\ results.failure_rate.num = 0

\* C25: get_carbon_summary answers data_available = FALSE exactly when no
\* FIA data exists for the state (the aggregate yields no row); that
\* summary carries the requested statecd and zero counts and totals.
C25_DataAvailable ==
    (pipeline = "summary" /\ pc = "done") =>
      LET nodata == ~ \E q \in fia_plot, t \in fia_tree :
                        t.plt_cn = q.cn /\ q.statecd = frame.statecd
      IN  /\ results.data_available = ~ nodata
          /\ nodata =>
                /\ results.statecd = frame.statecd
                /\ results.total_plots = 0 /\ results.total_trees = 0
                /\ results.total_carbon_ag_tons = 0
                /\ results.total_carbon_bg_tons = 0
                /\ results.avg_carbon_per_acre_tons = 0
                /\ results.species_count = 0

\* C26: check_orphaned_trees counts as failed every tree in scope whose
\* plt_cn is the cn of no stored plot, called without or with a state code:
\* when the store holds such a tree of the state, records_failed > 0 and
\* the severity is "error".
C26_OrphansCounted ==
    (pipeline = "orphaned_trees" /\ pc = "done") =>
      LET orphans == {t \in fia_tree :
                        /\ frame.statecd = 0 \/ t.statecd = frame.statecd
                        /\ ~ \E q \in fia_plot : q.cn = t.plt_cn}
      IN  orphans # {} =>
            /\ results.records_failed > 0
            /\ results.severity = "error"

RECURSIVE CleanedUpTo(_, _, _)
\* the number of rows that the first n chunks of table t clean to
CleanedUpTo(t, chunks, n) ==
    IF n = 0 THEN 0
    ELSE Cardinality(clean_fn(t, chunks[n])) + CleanedUpTo(t, chunks, n - 1)

\* C27: _ingest_table_chunked takes the chunks one at a time in source
\* order: when it moves on from chunk i the cleaned rows of chunk i are
\* committed; a chunk that cleans to zero rows is not sent to the loader
\* and opens no transaction; the running total, and so the total returned
\* at the end, is the sum of the cleaned row counts of the chunks appended.
C27_ChunkLoop ==
    [][ (pc = "chunks" /\ pc' \in {"chunks", "geom", "load"})
        => /\ ci' \in {ci, ci + 1}
           /\ total_rows' = CleanedUpTo(Table_, Chunks, ci' - 1)
           /\ ci' = ci + 1 =>
                LET cleaned == clean_fn(Table_, Chunks[ci]) IN
                /\ cleaned \subseteq Table(PgTable)'
                /\ cleaned = {} => /\ log' = log
                                   /\ Table(PgTable)' = Table(PgTable)
                /\ cleaned # {} => /\ log' = Append(log, <<"append", PgTable>>)
                                   /\ Table(PgTable)' \ Table(PgTable) = cleaned
           /\ ci' = ci => /\ ci > Len(Chunks)
                          /\ fia_plot' = fia_plot /\ fia_cond' = fia_cond
                          /\ fia_tree' = fia_tree ]_vars

\* the plot file was read to its end: its first chunk cleaned to nothing
\* and was skipped, its second chunk was appended
C27_Witness ==
    /\ pipeline = "fia" /\ pc = "geom" /\ Table_ = "PLOT"
    /\ Len(Chunks) = 2 /\ ci = 3
    /\ clean_fn("PLOT", Chunks[1]) = {} /\ total_rows = 1
    /\ Cardinality({a \in Events("append") : log[a][2] = "fia_plot"}) = 1

\* the run ended in download_fia_csv of the table at position ti
DownloadFailed ==
    Finished /\ error \in {"FetchFailed", "ArchiveFormatError"}

\* the keys of the rows that the source file of table t cleans to
SourceKeys(t) ==
    {r.cn : r \in UNION {clean_fn(t, source[state_abbr][t][k]) :
                            k \in DOMAIN source[state_abbr][t]}}

\* C28 (as stated): when the download of the i-th requested table fails,
\* that table and every requested table after it hold zero rows of the
\* region.
C28_LaterTablesEmpty ==
    DownloadFailed
    => \A j \in ti..Len(tables) :
         tables[j] \in DOMAIN table_config
         => RegionCount(table_config[tables[j]].pg_table, statecd) = 0

\* C28 (amended): every region delete of the run is committed before the
\* first download is attempted; when the download of the i-th requested
\* table fails, that table and every later one hold zero rows of the
\* region unless the list also names the table before position i, and the
\* tables named before position i hold the rows loaded from their files.
C28_DownloadFailure ==
    pipeline = "fia" =>
      /\ \A h \in Events("HEAD") :
            /\ \A d \in Events("delete") : d < h
            /\ {log[d][2] : d \in Events("delete")} = pg_tables_to_load(tables)
      /\ DownloadFailed =>
            /\ \A j \in ti..Len(tables) :
                 (tables[j] \in DOMAIN table_config
                    /\ \A k \in 1..(ti - 1) : tables[k] # tables[j])
                 => RegionCount(table_config[tables[j]].pg_table, statecd) = 0
            /\ \A k \in 1..(ti - 1) :
                 tables[k] \in DOMAIN table_config
                 => SourceKeys(tables[k])
                      \subseteq {r.cn : r \in Table(table_config[tables[k]].pg_table)}

\* a rerun over a loaded region: the first table was reloaded, the
\* download of the second failed and its previous rows are gone
C28_Witness ==
    /\ DownloadFailed /\ repeat /\ ti = 2 /\ Len(tables) = 2
    /\ Range(tables) \subseteq DOMAIN table_config /\ tables[1] # tables[2]
    /\ prevCounts[PgTable] > 0 /\ RegionCount(PgTable, statecd) = 0
    /\ RegionCount(table_config[tables[1]].pg_table, statecd) > 0

\* C29: after a run that completes without error, the row count that the
\* summary reports for each recognized requested table is the number of
\* rows stored for the requested region in that table.
C29_SummaryMatchesStore ==
    (Completed /\ state_abbr \in DOMAIN STATE_CODES)
    => \A t \in Recognized :
         RowsOf(t) = RegionCount(table_config[t].pg_table, statecd)

====
